---- MODULE Spec2Model ----
(***************************************************************************)
(* A model of OperationalEfficiencyAnalyzer (src/efficiency-analyzer.py):  *)
(* the metrics table self.df, detect_anomalies, forecast_resources,        *)
(* analyze_with_gpt and generate_insights_report, together with the        *)
(* external reasoning service and the files the report call writes.        *)
(*                                                                         *)
(* Numbers.  The program computes in floating point; the model computes    *)
(* exactly.  A quotient is kept as a pair of integers (numerator and       *)
(* denominator), a z-score is kept as its square (sqrt is monotone on the  *)
(* non-negative reals), a correlation as its three sums, and the IEEE      *)
(* values the program can produce by dividing by zero (NaN, inf) are kept  *)
(* as tagged values with numpy's comparison rules.                         *)
(***************************************************************************)
EXTENDS Integers, Sequences, FiniteSets, TLC

VARIABLES
    df,                        \* self.df: the metrics table, a sequence of rows
    service,                   \* the reasoning service: what it will answer
    pc,                        \* position of the running call
    metrics_summary,           \* local of generate_insights_report
    ai_analysis,               \* local of generate_insights_report
    potential_annual_savings,  \* local of generate_insights_report
    report,                    \* value returned by generate_insights_report
    last,                      \* the report returned by the call before
    error,                     \* exception that ended the last call
    files,                     \* names of the files in the working directory
    trace,                     \* externally visible events, oldest first
    runs,                      \* calls of generate_insights_report started
    anomalies,                 \* value returned by detect_anomalies
    forecasts,                 \* local of forecast_resources
    todo,                      \* departments forecast_resources has yet to fit
    result                     \* value returned by forecast_resources

vars == <<df, service, pc, metrics_summary, ai_analysis, potential_annual_savings,
          report, last, error, files, trace, runs, anomalies, forecasts, todo,
          result>>

(***************************************************************************)
(* Bounds of the model.                                                    *)
(***************************************************************************)
NumDays == 6        \* days of data of a full department
MaxOutliers == 2    \* rows of a table that deviate from the base row
MaxStrLen == 3      \* characters of the service's potential_savings text
MaxTransient == 1   \* requests the service may fail before it answers
MaxRuns == 2        \* calls of generate_insights_report in one behaviour

None == [none |-> TRUE]

(***************************************************************************)
(* Generic helpers standing for pandas / Python built-ins.                 *)
(***************************************************************************)
RECURSIVE SumRange(_, _, _)
\* s[lo] + ... + s[hi], summed by halves.
SumRange(s, lo, hi) ==
    IF lo > hi THEN 0
    ELSE IF lo = hi THEN s[lo]
    ELSE LET mid == (lo + hi) \div 2
         IN SumRange(s, lo, mid) + SumRange(s, mid + 1, hi)

SumSeq(s) == SumRange(s, 1, Len(s))

\* The indices of s, in order.
Index(s) == [i \in 1..Len(s) |-> i]

\* t[t[col] == v]: the rows of t whose column col equals v, in order.
SelectRows(t, col, v) ==
    LET idx == SelectSeq(Index(t), LAMBDA i : t[i][col] = v)
    IN [k \in 1..Len(idx) |-> t[idx[k]]]

\* Series.unique(): the distinct values in order of first appearance.
Unique(s) ==
    LET idx == SelectSeq(Index(s), LAMBDA i : \A j \in 1..(i - 1) : s[j] # s[i])
    IN [k \in 1..Len(idx) |-> s[idx[k]]]

\* t[col]: one column of a table.
Column(t, col) == [i \in 1..Len(t) |-> t[i][col]]

RECURSIVE Flatten(_)
Flatten(ss) == IF ss = <<>> THEN <<>> ELSE Head(ss) \o Flatten(Tail(ss))

Abs(x) == IF x < 0 THEN -x ELSE x

(***************************************************************************)
(* The metrics table.  generate_sample_data builds it department by        *)
(* department, one row per (department, date), dates ascending.            *)
(***************************************************************************)
Departments == <<"IT", "Sales", "Operations">>

\* The centre of each generated column (loc= of the normal draws).  Money is
\* counted in thousands (10 stands for 10000), which keeps every exact
\* product below 2^31; every formula of the program is linear in it.
BaseRow == [staff_hours |-> 80, budget_spent |-> 10,
            resource_utilization |-> 75, productivity_score |-> 85]

\* Rows that deviate from the centre; every value is within the clamps of
\* generate_sample_data (hours and budget >= 0, utilization in [0,100]).
OutlierRows ==
    { [staff_hours |-> 80,  budget_spent |-> 10,
       resource_utilization |-> 10, productivity_score |-> 85],
      [staff_hours |-> 80,  budget_spent |-> 10,
       resource_utilization |-> 74, productivity_score |-> 80],
      [staff_hours |-> 80,  budget_spent |-> 10,
       resource_utilization |-> 70, productivity_score |-> 85],
      [staff_hours |-> 120, budget_spent |-> 15,
       resource_utilization |-> 75, productivity_score |-> 90] }

MakeRow(dept, day, v) ==
    [date |-> day, department |-> dept,
     staff_hours |-> v.staff_hours, budget_spent |-> v.budget_spent,
     resource_utilization |-> v.resource_utilization,
     productivity_score |-> v.productivity_score]

\* The table of the departments depts (a sequence), lens[d] days each, where
\* the rows at the positions DOMAIN devs hold devs' values and all other
\* rows the base row.
MakeTable(depts, lens, devs) ==
    Flatten([k \in 1..Len(depts) |->
        [i \in 1..lens[depts[k]] |->
            MakeRow(depts[k], i,
                    IF <<depts[k], i>> \in DOMAIN devs
                    THEN devs[<<depts[k], i>>] ELSE BaseRow)]])

Positions(depts, lens) ==
    UNION {{<<depts[k], i>> : i \in 1..lens[depts[k]]} : k \in 1..Len(depts)}

\* t is a table over depts with 1 or NumDays days per department and at
\* most maxdev deviating rows.
IsTable(t, depts, maxdev) ==
    \E lens \in [{depts[k] : k \in 1..Len(depts)} -> {1, NumDays}] :
        \E P \in {Q \in SUBSET Positions(depts, lens) : Cardinality(Q) <= maxdev} :
            \E devs \in [P -> OutlierRows] :
                t = MakeTable(depts, lens, devs)

\* One department, 100 days of utilization 75 except day k at 10.
OutlierScenario(k) ==
    MakeTable(<<"IT">>, [d \in {"IT"} |-> 100],
              [p \in {<<"IT", k>>} |->
                  [BaseRow EXCEPT !.resource_utilization = 10]])

(***************************************************************************)
(* detect_anomalies                                                        *)
(***************************************************************************)
KeyMetrics == <<"staff_hours", "budget_spent", "resource_utilization">>

ZThreshold == 2

NaN == [kind |-> "nan"]
Inf == [kind |-> "inf"]

\* np.abs((x - mean) / std) for one value x of a column with n values, sum s
\* and q = sum of (n*v - s)^2 over the column.  mean = s/n, and pandas' std
\* is the sample one (ddof=1): std^2 = q / (n^2 * (n-1)), NaN when n = 1.
\* Hence z^2 = (n*x - s)^2 / (q / (n-1)), kept as the numerator dev_sq and
\* the two parts of the denominator; dividing by a zero std gives NaN for a
\* zero numerator and inf otherwise, without raising.
ZScore(n, s, q, x) ==
    LET d == n * x - s
    IN IF n < 2 THEN NaN
       ELSE IF q = 0 THEN (IF d = 0 THEN NaN ELSE Inf)
       ELSE [kind |-> "num", dev_sq |-> d * d, sq_sum |-> q, dof |-> n - 1]

\* The z-scores of a whole column.
z_scores(col) ==
    LET n == Len(col)
        s == SumSeq(col)
        q == SumSeq([i \in 1..n |-> (n * col[i] - s) * (n * col[i] - s)])
    IN [i \in 1..n |-> ZScore(n, s, q, col[i])]

\* z > 2: a comparison with NaN is False, inf exceeds every number.  For a
\* number, z^2 > 4 reads dev_sq > 4 * sq_sum / dof; dev_sq is an integer, so
\* it exceeds the quotient exactly when it exceeds the quotient's floor.
\* Mutant: NaN counts as exceeding (the test written as not (z <= 2)).
ExceedsNanTrue(z) ==
    CASE z.kind = "nan" -> TRUE
      [] z.kind = "inf" -> TRUE
      [] OTHER -> z.dev_sq > (ZThreshold * ZThreshold * z.sq_sum) \div z.dof

\* Mutant: z >= 2 instead of z > 2.
ExceedsOrEqual(z) ==
    CASE z.kind = "nan" -> FALSE
      [] z.kind = "inf" -> TRUE
      [] OTHER -> z.dev_sq >=
                    (ZThreshold * ZThreshold * z.sq_sum + z.dof - 1) \div z.dof

Exceeds(z) ==
    CASE z.kind = "nan" -> FALSE
      [] z.kind = "inf" -> TRUE
      [] OTHER -> z.dev_sq > (ZThreshold * ZThreshold * z.sq_sum) \div z.dof

\* dept_data[mask]: the rows whose mask entry is True.
MaskRows(t, mask) ==
    LET idx == SelectSeq(Index(t), LAMBDA i : mask[i])
    IN [k \in 1..Len(idx) |-> t[idx[k]]]

\* self.df[self.df['department'] == dept]
DeptData(t, dept) == SelectRows(t, "department", dept)

\* The records appended for one department and one metric.
MetricAnomalies(dept_data, dept, metric) ==
    LET z == z_scores(Column(dept_data, metric))
        anomaly_dates ==
            Column(MaskRows(dept_data, [i \in 1..Len(dept_data) |-> Exceeds(z[i])]),
                   "date")
    IN [j \in 1..Len(anomaly_dates) |->
           [department |-> dept,
            date |-> anomaly_dates[j],
            metric |-> metric,
            value |-> SelectRows(dept_data, "date", anomaly_dates[j])[1][metric]]]

detect_anomalies(t) ==
    LET depts == Unique(Column(t, "department"))
    IN Flatten([k \in 1..Len(depts) |->
           LET dept_data == DeptData(t, depts[k])
           IN Flatten([m \in 1..Len(KeyMetrics) |->
                  MetricAnomalies(dept_data, depts[k], KeyMetrics[m])])])

(***************************************************************************)
(* Specification of detect_anomalies alone.                                *)
(***************************************************************************)
InitRest ==
    /\ pc = "idle"
    /\ metrics_summary = None
    /\ ai_analysis = None
    /\ potential_annual_savings = None
    /\ report = None
    /\ last = None
    /\ error = "none"
    /\ files = {}
    /\ trace = <<>>
    /\ runs = 0
    /\ anomalies = None
    /\ forecasts = None
    /\ todo = <<>>
    /\ result = None

InitDetect ==
    /\ \/ IsTable(df, SubSeq(Departments, 1, 2), MaxOutliers)
       \/ \E k \in {1, 50, 100} : df = OutlierScenario(k)
    /\ service = None
    /\ InitRest

DetectAnomalies ==
    /\ pc = "idle"
    /\ anomalies' = detect_anomalies(df)
    /\ pc' = "detected"
    /\ UNCHANGED <<df, service, metrics_summary, ai_analysis,
                   potential_annual_savings, report, last, error, files, trace,
                   runs, forecasts, todo, result>>

NextDetect == DetectAnomalies

SpecDetect == InitDetect /\ [][NextDetect]_vars

(***************************************************************************)
(* Exact fractions, in lowest terms with a positive denominator.           *)
(***************************************************************************)
RECURSIVE Gcd(_, _)
Gcd(a, b) == IF b = 0 THEN a ELSE Gcd(b, a % b)

Frac(a, b) ==
    LET g == Gcd(Abs(a), b)
    IN [num |-> a \div g, den |-> b \div g]

FracSub(x, y) == Frac(x.num * y.den - y.num * x.den, x.den * y.den)
FracMul(x, y) == Frac(x.num * y.num, x.den * y.den)
\* x / k for an integer k > 0.
FracDiv(x, k) == Frac(x.num, x.den * k)

(***************************************************************************)
(* The reasoning service (openai.ChatCompletion.create).  It fails the     *)
(* first `failures` requests with a transport error (timeout, connection   *)
(* error) and answers every later one with the same message `content`.     *)
(***************************************************************************)
Chars == {"0", "1", "-", "%"}

Strings == UNION {[1..k -> Chars] : k \in 0..MaxStrLen}

\* The value under "potential_savings": absent, a JSON number or JSON text.
SavingsValues ==
    {[type |-> "absent", n |-> 0, s |-> <<>>]}
    \cup {[type |-> "num", n |-> k, s |-> <<>>] : k \in {-5, 10, 150}}
    \cup {[type |-> "str", n |-> 0, s |-> str] : str \in Strings}

NoFields == [k \in {} |-> <<>>]

\* A JSON object with the two list fields and, as told, the other two.
JsonObject(has_priority_actions, savings) ==
    [type |-> "object",
     fields |->
        [k \in {"identified_inefficiencies", "optimization_suggestions"}
           |-> <<"item">>]
        @@ (IF savings.type = "absent" THEN NoFields
            ELSE [k \in {"potential_savings"} |-> savings])
        @@ (IF has_priority_actions
            THEN [k \in {"priority_actions"} |-> <<"a1", "a2", "a3">>]
            ELSE NoFields)]

\* A JSON document that is not an object.
JsonList == [type |-> "list", fields |-> NoFields]

\* A message that is not JSON at all.
NotJson == [type |-> "text", fields |-> NoFields]

InitService ==
    \E f \in 0..MaxTransient :
        \/ service = [failures |-> f, content |-> NotJson]
        \/ service = [failures |-> f, content |-> JsonList]
        \/ \E pa \in BOOLEAN : \E sv \in SavingsValues :
              service = [failures |-> f, content |-> JsonObject(pa, sv)]

(***************************************************************************)
(* str.strip('%') and float()                                              *)
(***************************************************************************)
RECURSIVE LStrip(_, _)
LStrip(s, c) == IF s # <<>> /\ Head(s) = c THEN LStrip(Tail(s), c) ELSE s

RECURSIVE RStrip(_, _)
RStrip(s, c) ==
    IF s # <<>> /\ s[Len(s)] = c THEN RStrip(SubSeq(s, 1, Len(s) - 1), c) ELSE s

\* s.strip(c): every leading and every trailing c removed.
Strip(s, c) == RStrip(LStrip(s, c), c)

Digits == {"0", "1"}

DigitValue(c) == IF c = "1" THEN 1 ELSE 0

RECURSIVE Decimal(_)
\* The number a non-empty string of digits denotes.
Decimal(s) ==
    IF Len(s) = 1 THEN DigitValue(s[1])
    ELSE 10 * Decimal(SubSeq(s, 1, Len(s) - 1)) + DigitValue(s[Len(s)])

IsDigits(s) == s # <<>> /\ \A i \in 1..Len(s) : s[i] \in Digits

\* float(s) over the characters of Chars: an optional sign and one or more
\* digits; anything else raises ValueError.
Float(s) ==
    IF IsDigits(s) THEN [ok |-> TRUE, value |-> Decimal(s)]
    ELSE IF s # <<>> /\ Head(s) = "-" /\ IsDigits(Tail(s))
         THEN [ok |-> TRUE, value |-> 0 - Decimal(Tail(s))]
         ELSE [ok |-> FALSE, value |-> 0]

(***************************************************************************)
(* generate_insights_report and analyze_with_gpt                           *)
(***************************************************************************)
\* Series.mean(): the sum over the count.
Mean(col) == Frac(SumSeq(col), Len(col))

\* Series.corr(): Pearson's r = cov / sqrt(var_x * var_y), with the three
\* sums scaled by n^2; NaN when a column is constant.
Corr(x, y) ==
    LET n == Len(x)
        sx == SumSeq(x)
        sy == SumSeq(y)
        cov == n * SumSeq([i \in 1..n |-> x[i] * y[i]]) - sx * sy
        vx == n * SumSeq([i \in 1..n |-> x[i] * x[i]]) - sx * sx
        vy == n * SumSeq([i \in 1..n |-> y[i] * y[i]]) - sy * sy
    IN IF vx = 0 \/ vy = 0 THEN [kind |-> "nan", cov |-> 0, var_x |-> 0, var_y |-> 0]
       ELSE [kind |-> "num", cov |-> cov, var_x |-> vx, var_y |-> vy]

\* df.groupby('department').agg({...}).to_dict(): per column, per department.
DepartmentMetrics(t) ==
    LET depts == {t[i].department : i \in 1..Len(t)}
        rows(d) == SelectRows(t, "department", d)
    IN [resource_utilization |->
            [d \in depts |-> Mean(Column(rows(d), "resource_utilization"))],
        budget_spent |->
            [d \in depts |-> SumSeq(Column(rows(d), "budget_spent"))],
        productivity_score |->
            [d \in depts |-> Mean(Column(rows(d), "productivity_score"))]]

MetricsSummary(t) ==
    [avg_utilization |-> Mean(Column(t, "resource_utilization")),
     total_budget |-> SumSeq(Column(t, "budget_spent")),
     productivity_correlation |->
         Corr(Column(t, "resource_utilization"), Column(t, "productivity_score")),
     department_metrics |-> DepartmentMetrics(t)]

\* json.loads(response.choices[0].message.content)
json_loads(content) ==
    IF content.type = "text"
    THEN [ok |-> FALSE, value |-> content]
    ELSE [ok |-> TRUE, value |-> content]

\* Mutant: the headroom factor dropped (avg_utilization in place of
\* 100 - avg_utilization).
SavingsFormulaNoHeadroom(avg_utilization, total_budget, savings) ==
    FracDiv(FracMul(FracMul(avg_utilization, Frac(total_budget, 1)),
                    Frac(savings, 1)),
            10000)

\* (100 - avg_utilization) * total_budget * savings / 10000
SavingsFormula(avg_utilization, total_budget, savings) ==
    FracDiv(FracMul(FracMul(FracSub(Frac(100, 1), avg_utilization),
                            Frac(total_budget, 1)),
                    Frac(savings, 1)),
            10000)

\* Lines 142-144: the value of potential_annual_savings, or the exception
\* the expression raises.
PotentialAnnualSavings(summary, analysis) ==
    IF analysis.type # "object"
    THEN [error |-> "TypeError", value |-> Frac(0, 1)]
    ELSE IF "potential_savings" \notin DOMAIN analysis.fields
    THEN [error |-> "KeyError", value |-> Frac(0, 1)]
    ELSE LET v == analysis.fields["potential_savings"]
         IN IF v.type # "str"
            THEN [error |-> "AttributeError", value |-> Frac(0, 1)]
            ELSE LET f == Float(Strip(v.s, "%"))
                 IN IF ~f.ok
                    THEN [error |-> "ValueError", value |-> Frac(0, 1)]
                    ELSE [error |-> "none",
                          value |-> SavingsFormula(summary.avg_utilization,
                                                   summary.total_budget,
                                                   f.value)]

UtilChart == "utilization_by_dept.html"
BudgetChart == "budget_trend.html"

Event(e, a) == [event |-> e, arg |-> a]

\* Entry of generate_insights_report and lines 118-127.
GenerateInsightsReport ==
    /\ pc \in {"idle", "returned", "raised"}
    /\ runs < MaxRuns
    /\ runs' = runs + 1
    /\ last' = IF pc = "returned" THEN report ELSE last
    /\ report' = None
    /\ error' = "none"
    /\ ai_analysis' = None
    /\ potential_annual_savings' = None
    /\ metrics_summary' = MetricsSummary(df)
    /\ trace' = Append(trace, Event("call", "generate_insights_report"))
    /\ pc' = "summarized"
    /\ UNCHANGED <<df, service, files, anomalies, forecasts, todo, result>>

\* Line 130 -> lines 59-66: the request fails in transport; nothing catches
\* the exception, which ends the call.
RequestFails ==
    /\ pc = "summarized"
    /\ service.failures > 0
    /\ service' = [service EXCEPT !.failures = @ - 1]
    /\ trace' = trace \o <<Event("request", "gpt-3.5-turbo"),
                           Event("raise", "transport")>>
    /\ error' = "transport"
    /\ pc' = "raised"
    /\ UNCHANGED <<df, metrics_summary, ai_analysis, potential_annual_savings,
                   report, last, files, runs, anomalies, forecasts, todo, result>>

\* Line 130 -> lines 59-68: the service answers; json.loads raises on a
\* message that is not JSON and otherwise returns what it parsed.
RequestAnswered ==
    /\ pc = "summarized"
    /\ service.failures = 0
    /\ LET parsed == json_loads(service.content)
       IN \/ /\ ~parsed.ok
             /\ trace' = trace \o <<Event("request", "gpt-3.5-turbo"),
                                    Event("raise", "JSONDecodeError")>>
             /\ error' = "JSONDecodeError"
             /\ pc' = "raised"
             /\ UNCHANGED ai_analysis
          \/ /\ parsed.ok
             /\ trace' = Append(trace, Event("request", "gpt-3.5-turbo"))
             /\ ai_analysis' = parsed.value
             /\ pc' = "analyzed"
             /\ UNCHANGED error
    /\ UNCHANGED <<df, service, metrics_summary, potential_annual_savings,
                   report, last, files, runs, anomalies, forecasts, todo, result>>

\* Mutant: the chart is written before the request of line 130 is made.
WriteUtilChartBeforeRequest ==
    /\ pc = "summarized"
    /\ UtilChart \notin files
    /\ files' = files \cup {UtilChart}
    /\ trace' = Append(trace, Event("write_html", UtilChart))
    /\ UNCHANGED <<df, service, pc, metrics_summary, ai_analysis,
                   potential_annual_savings, report, last, error, runs,
                   anomalies, forecasts, todo, result>>

\* Lines 133-135.
WriteUtilChart ==
    /\ pc = "analyzed"
    /\ files' = files \cup {UtilChart}
    /\ trace' = Append(trace, Event("write_html", UtilChart))
    /\ pc' = "chart1"
    /\ UNCHANGED <<df, service, metrics_summary, ai_analysis,
                   potential_annual_savings, report, last, error, runs,
                   anomalies, forecasts, todo, result>>

\* Lines 137-139.
WriteBudgetChart ==
    /\ pc = "chart1"
    /\ files' = files \cup {BudgetChart}
    /\ trace' = Append(trace, Event("write_html", BudgetChart))
    /\ pc' = "chart2"
    /\ UNCHANGED <<df, service, metrics_summary, ai_analysis,
                   potential_annual_savings, report, last, error, runs,
                   anomalies, forecasts, todo, result>>

\* Lines 141-144.
ComputeSavings ==
    /\ pc = "chart2"
    /\ LET r == PotentialAnnualSavings(metrics_summary, ai_analysis)
       IN \/ /\ r.error # "none"
             /\ error' = r.error
             /\ trace' = Append(trace, Event("raise", r.error))
             /\ pc' = "raised"
             /\ UNCHANGED potential_annual_savings
          \/ /\ r.error = "none"
             /\ potential_annual_savings' = r.value
             /\ pc' = "computed"
             /\ UNCHANGED <<error, trace>>
    /\ UNCHANGED <<df, service, metrics_summary, ai_analysis, report, last,
                   files, runs, anomalies, forecasts, todo, result>>

\* Mutant: detect_anomalies drops the rows it flags from self.df.
ReturnReportDroppingRows ==
    /\ pc = "computed"
    /\ report' = [metrics_summary |-> metrics_summary,
                  ai_recommendations |-> ai_analysis,
                  anomalies |-> Len(detect_anomalies(df)),
                  potential_annual_savings |-> potential_annual_savings,
                  analysis_date |-> runs]
    /\ df' = LET flagged == detect_anomalies(df)
                 idx == SelectSeq(Index(df), LAMBDA k :
                            ~\E i \in 1..Len(flagged) :
                                /\ flagged[i].department = df[k].department
                                /\ flagged[i].date = df[k].date)
             IN [k \in 1..Len(idx) |-> df[idx[k]]]
    /\ trace' = trace \o <<Event("detect_anomalies", ""),
                           Event("return", "generate_insights_report")>>
    /\ pc' = "returned"
    /\ UNCHANGED <<service, metrics_summary, ai_analysis,
                   potential_annual_savings, last, error, files, runs,
                   anomalies, forecasts, todo, result>>

\* Mutant: the report is saved to a file before it is returned.
ReturnReportSavingFile ==
    /\ pc = "computed"
    /\ report' = [metrics_summary |-> metrics_summary,
                  ai_recommendations |-> ai_analysis,
                  anomalies |-> Len(detect_anomalies(df)),
                  potential_annual_savings |-> potential_annual_savings,
                  analysis_date |-> runs]
    /\ files' = files \cup {"report.json"}
    /\ trace' = trace \o <<Event("detect_anomalies", ""),
                           Event("write", "report.json"),
                           Event("return", "generate_insights_report")>>
    /\ pc' = "returned"
    /\ UNCHANGED <<df, service, metrics_summary, ai_analysis,
                   potential_annual_savings, last, error, runs,
                   anomalies, forecasts, todo, result>>

\* Lines 146-152.  analysis_date is the day of the call; the model lets each
\* call fall on a day of its own.
ReturnReport ==
    /\ pc = "computed"
    /\ report' = [metrics_summary |-> metrics_summary,
                  ai_recommendations |-> ai_analysis,
                  anomalies |-> Len(detect_anomalies(df)),
                  potential_annual_savings |-> potential_annual_savings,
                  analysis_date |-> runs]
    /\ trace' = trace \o <<Event("detect_anomalies", ""),
                           Event("return", "generate_insights_report")>>
    /\ pc' = "returned"
    /\ UNCHANGED <<df, service, metrics_summary, ai_analysis,
                   potential_annual_savings, last, error, files, runs,
                   anomalies, forecasts, todo, result>>

\* The example of the savings estimate: average utilization 80 and a total
\* budget of 1000 thousands.
SavingsScenario ==
    MakeTable(<<"IT">>, [d \in {"IT"} |-> 4],
              [p \in {<<"IT", i>> : i \in 1..4} |->
                  [staff_hours |-> 80, budget_spent |-> 250,
                   resource_utilization |-> 80, productivity_score |-> 85]])

\* The tables of the report runs: two departments of NumDays days where at
\* most the first row deviates, and the savings example.
Init ==
    /\ \/ \E P \in SUBSET {<<"IT", 1>>} : \E devs \in [P -> OutlierRows] :
             df = MakeTable(SubSeq(Departments, 1, 2),
                            [d \in {"IT", "Sales"} |-> NumDays], devs)
       \/ df = SavingsScenario
    /\ InitService
    /\ InitRest

Next ==
    \/ GenerateInsightsReport
    \/ RequestFails
    \/ RequestAnswered
    \/ WriteUtilChart
    \/ WriteBudgetChart
    \/ ComputeSavings
    \/ ReturnReport

Spec == Init /\ [][Next]_vars

(***************************************************************************)
(* forecast_resources                                                      *)
(***************************************************************************)
ForecastPeriods == 90

\* pd.DataFrame({'ds': dept_data['date'], 'y': dept_data['resource_utilization']})
ProphetFrame(dept_data) ==
    [i \in 1..Len(dept_data) |->
        [ds |-> dept_data[i].date, y |-> dept_data[i].resource_utilization]]

\* Prophet.fit raises ValueError('Dataframe has less than 2 non-NaN rows.')
\* on a history of fewer than two rows.
FitFails(df_prophet) == Len(df_prophet) < 2

\* make_future_dataframe(periods=90) and predict: one point per historical
\* date and per day of the horizon; the predicted values are Prophet's own
\* and are left out.
Predict(df_prophet) ==
    LET n == Len(df_prophet)
    IN [points |-> n + ForecastPeriods,
        last_ds |-> df_prophet[n].ds + ForecastPeriods]

\* Entry of forecast_resources, lines 94-96.
ForecastResources ==
    /\ pc = "idle"
    /\ forecasts' = NoFields
    /\ todo' = Unique(Column(df, "department"))
    /\ pc' = "forecasting"
    /\ UNCHANGED <<df, service, metrics_summary, ai_analysis,
                   potential_annual_savings, report, last, error, files, trace,
                   runs, anomalies, result>>

\* One turn of the loop, lines 97-111.  Nothing catches what model.fit
\* raises: the exception ends forecast_resources and its local forecasts
\* are gone.
ForecastDepartment ==
    /\ pc = "forecasting"
    /\ todo # <<>>
    /\ LET dept == Head(todo)
           df_prophet == ProphetFrame(SelectRows(df, "department", dept))
       IN \/ /\ FitFails(df_prophet)
             /\ error' = "ValueError"
             /\ forecasts' = None
             /\ pc' = "raised"
             /\ UNCHANGED todo
          \/ /\ ~FitFails(df_prophet)
             /\ forecasts' = forecasts @@ [d \in {dept} |-> Predict(df_prophet)]
             /\ todo' = Tail(todo)
             /\ UNCHANGED <<error, pc>>
    /\ UNCHANGED <<df, service, metrics_summary, ai_analysis,
                   potential_annual_savings, report, last, files, trace, runs,
                   anomalies, result>>

\* Line 113.
ForecastReturn ==
    /\ pc = "forecasting"
    /\ todo = <<>>
    /\ result' = forecasts
    /\ pc' = "returned"
    /\ UNCHANGED <<df, service, metrics_summary, ai_analysis,
                   potential_annual_savings, report, last, error, files, trace,
                   runs, anomalies, forecasts, todo>>

\* Tables of three departments with at most one deviating row.
InitForecast ==
    /\ IsTable(df, Departments, 1)
    /\ service = None
    /\ InitRest

NextForecast ==
    \/ ForecastResources
    \/ ForecastDepartment
    \/ ForecastReturn

SpecForecast == InitForecast /\ [][NextForecast]_vars

(***************************************************************************)
(* The anomaly rule stated over the set of a department's rows.            *)
(***************************************************************************)
RowsOf(d) == {df[i] : i \in {j \in 1..Len(df) : df[j].department = d}}

DeptSet == {df[i].department : i \in 1..Len(df)}

MetricSet == {KeyMetrics[m] : m \in 1..Len(KeyMetrics)}

\* The sum of f[i] over the rows df[i] of department d.
DeptSum(d, f) ==
    SumSeq([i \in 1..Len(df) |-> IF df[i].department = d THEN f[i] ELSE 0])

\* The values of the metric are not all equal, so that the sample standard
\* deviation exists and is not zero.
NonZeroStd(d, m) == \E r1, r2 \in RowsOf(d) : r1[m] # r2[m]

\* |value - mean| / std > 2 for row r of department d, cleared of fractions
\* and roots: with n rows of total t, (n*v - t)^2 * (n-1) > 4 * sum of
\* (n*v' - t)^2.  The left product is formed by dividing the right side.
IsOutlier(d, m, r) ==
    LET R == RowsOf(d)
        n == Cardinality(R)
        t == DeptSum(d, [i \in 1..Len(df) |-> df[i][m]])
        ss == DeptSum(d, [i \in 1..Len(df) |->
                             (n * df[i][m] - t) * (n * df[i][m] - t)])
    IN (n * r[m] - t) * (n * r[m] - t) > (4 * ss) \div (n - 1)

AnomalyOf(d, m, r) ==
    [department |-> d, date |-> r.date, metric |-> m, value |-> r[m]]

Occurrences(seq, x) == Cardinality({i \in 1..Len(seq) : seq[i] = x})

\* C1: for every department and key metric with a non-zero standard
\* deviation, detect_anomalies returns exactly one record for each row with
\* |value - mean| / std > 2 and no record for any other row; one department
\* with 100 days of utilization 75 and a single day at 10 yields exactly one
\* anomaly, for resource_utilization on that day.
C1_FlagsExactlyOutliers ==
    pc = "detected" =>
        /\ \A d \in DeptSet : \A m \in MetricSet :
              NonZeroStd(d, m) =>
                /\ \A r \in RowsOf(d) :
                      Occurrences(anomalies, AnomalyOf(d, m, r)) =
                          (IF IsOutlier(d, m, r) THEN 1 ELSE 0)
                /\ \A i \in 1..Len(anomalies) :
                      (anomalies[i].department = d /\ anomalies[i].metric = m)
                      => \E r \in RowsOf(d) : anomalies[i] = AnomalyOf(d, m, r)
        /\ Len(df) = 100 =>
              \A k \in {1, 50, 100} :
                  df = OutlierScenario(k) =>
                      anomalies = << [department |-> "IT", date |-> k,
                                      metric |-> "resource_utilization",
                                      value |-> 10] >>

\* C1 witness: the 100-day scenario has been analysed and gave its one record.
C1_Witness ==
    /\ pc = "detected"
    /\ df = OutlierScenario(50)
    /\ Len(anomalies) = 1
    /\ anomalies[1].date = 50

\* C2: a department whose values of a metric are all equal gets no anomaly
\* record for that metric, whatever the other departments and metrics hold,
\* and detect_anomalies ends without an error.
C2_ConstantMetricNeverFlagged ==
    /\ error = "none"
    /\ pc = "detected" =>
          \A d \in DeptSet : \A m \in MetricSet :
              ~NonZeroStd(d, m) =>
                  \A i \in 1..Len(anomalies) :
                      ~(anomalies[i].department = d /\ anomalies[i].metric = m)

\* C2 witness: one department is constant in a metric over several days
\* while another department has anomalies in that same metric.
C2_Witness ==
    /\ pc = "detected"
    /\ \E d \in DeptSet : \E m \in MetricSet :
          /\ Cardinality(RowsOf(d)) >= 2
          /\ ~NonZeroStd(d, m)
          /\ \E i \in 1..Len(anomalies) :
                anomalies[i].department # d /\ anomalies[i].metric = m

(***************************************************************************)
(* Properties of generate_insights_report.                                 *)
(***************************************************************************)
HasCall == \E i \in 1..Len(trace) : trace[i].event = "call"

LastCall ==
    CHOOSE i \in 1..Len(trace) :
        /\ trace[i].event = "call"
        /\ \A j \in (i + 1)..Len(trace) : trace[j].event # "call"

\* The events of the call in progress, or of the last call once it ended.
CallEvents == IF HasCall THEN SubSeq(trace, LastCall, Len(trace)) ELSE <<>>

CountEvents(seq, e) == Cardinality({i \in 1..Len(seq) : seq[i].event = e})

\* The events that touch a file, in order.
FileEvents(seq) ==
    LET idx == SelectSeq(Index(seq), LAMBDA i : seq[i].event \in {"write_html", "write"})
    IN [k \in 1..Len(idx) |-> seq[idx[k]]]

\* The text the service put under "potential_savings" of a returned report.
ReportedSavings == report.ai_recommendations.fields["potential_savings"].s

\* s without one trailing "%".
StripTrailing(s) ==
    IF s # <<>> /\ s[Len(s)] = "%" THEN SubSeq(s, 1, Len(s) - 1) ELSE s

\* s from its first to its last character other than "%".
WithoutPercentEnds(s) ==
    LET keep == {i \in 1..Len(s) : s[i] # "%"}
    IN IF keep = {} THEN <<>>
       ELSE SubSeq(s, CHOOSE i \in keep : \A j \in keep : i <= j,
                      CHOOSE i \in keep : \A j \in keep : i >= j)

\* (100 - avg_utilization) * total_budget * (percent / 100) / 100
StatedSavings(summary, percent) ==
    FracDiv(FracMul(FracMul(FracSub(Frac(100, 1), summary.avg_utilization),
                            Frac(summary.total_budget, 1)),
                    FracDiv(Frac(percent, 1), 100)),
            100)

\* C3: no recommendation set without priority_actions leaves
\* analyze_with_gpt, and no returned report carries one.
C3_PriorityActionsRequired ==
    /\ pc \in {"analyzed", "chart1", "chart2", "computed"} =>
          "priority_actions" \in DOMAIN ai_analysis.fields
    /\ pc = "returned" =>
          "priority_actions" \in DOMAIN report.ai_recommendations.fields

\* C4: every returned report has a savings percentage that parses, after a
\* trailing "%" is stripped, to a number in [0,100].
C4_SavingsPercentInRange ==
    pc = "returned" =>
        LET f == Float(StripTrailing(ReportedSavings))
        IN f.ok /\ 0 <= f.value /\ f.value <= 100

\* C5: a transport failure ends the report call only after the request has
\* been retried, that is, after more than one request of that call.
C5_TransportFailureRetried ==
    (pc = "raised" /\ error = "transport") =>
        CountEvents(CallEvents, "request") > 1

C8_Repeatable ==
    /\ pc = "returned" => report.anomalies = Len(detect_anomalies(df))
    /\ (pc = "returned" /\ last # None) =>
          /\ last.metrics_summary = report.metrics_summary
          /\ last.anomalies = report.anomalies

\* C8: two reports built from the same table and the same service answer
\* have the same metrics_summary and the same anomaly count, the count is
\* the number of records detect_anomalies returns for the table, and no
\* step changes the table.
C8_RepeatableReport == [](C8_Repeatable) /\ [][df' = df]_vars

\* C8 witness: a second report of a table with anomalies has been returned.
C8_Witness ==
    /\ pc = "returned"
    /\ last # None
    /\ report.anomalies > 0
    /\ report.analysis_date # last.analysis_date

AfterRecommendation == {"analyzed", "chart1", "chart2", "computed"}

\* C9 as stated: once the recommendation is there, no step of the report
\* call touches a file.
C9_NoFileTouched ==
    [][(pc \in AfterRecommendation) => (FileEvents(trace') = FileEvents(trace))]_vars

C9_ChartsOnly ==
    pc = "returned" =>
        FileEvents(CallEvents) = <<Event("write_html", UtilChart),
                                   Event("write_html", BudgetChart)>>

\* C9 as amended: once the recommendation is there, the report call changes
\* nothing outside the report value except that it writes the two chart
\* files, utilization_by_dept.html and then budget_trend.html; the table
\* and the service are left alone.
C9_OnlyChartFilesWritten ==
    /\ [](C9_ChartsOnly)
    /\ [][(pc \in AfterRecommendation) =>
            (/\ df' = df
             /\ service' = service
             /\ files \subseteq files'
             /\ files' \subseteq files \cup {UtilChart, BudgetChart})]_vars

\* C9 witness: a report has been returned and both charts are on disk.
C9_Witness ==
    /\ pc = "returned"
    /\ files = {UtilChart, BudgetChart}

C10_Order ==
    /\ files = {trace[i].arg : i \in {j \in 1..Len(trace) :
                                        trace[j].event \in {"write_html", "write"}}}
    /\ pc = "summarized" =>
          CallEvents = <<Event("call", "generate_insights_report")>>
    /\ pc \in AfterRecommendation \cup {"returned", "raised"} =>
          /\ CountEvents(CallEvents, "request") = 1
          /\ CallEvents[2].event = "request"
    /\ (pc = "raised" /\ error \in {"transport", "JSONDecodeError"}) =>
          /\ report = None
          /\ CallEvents = <<Event("call", "generate_insights_report"),
                            Event("request", "gpt-3.5-turbo"),
                            Event("raise", error)>>

\* C10: a call issues exactly one request, before any chart is written and
\* before anomaly detection; a call whose request raises (transport failure
\* or a message that is not JSON) returns no report, writes no file and
\* leaves the table as it was.
C10_RequestFirst == [](C10_Order) /\ [][df' = df]_vars

\* C10 witness: the request of a call has failed in transport.
C10_Witness ==
    /\ pc = "raised"
    /\ error = "transport"
    /\ report = None
    /\ files = {}
    /\ CountEvents(trace, "request") = 1

(***************************************************************************)
(* Property of forecast_resources.                                         *)
(***************************************************************************)
\* C6: when forecast_resources has ended, the map it returned holds the
\* forecast of every department whose fit succeeds, also when the fit of
\* another department failed.
C6_FitFailureIsolated ==
    pc \in {"returned", "raised"} =>
        \A d \in DeptSet :
            ~FitFails(ProphetFrame(SelectRows(df, "department", d))) =>
                pc = "returned" /\ d \in DOMAIN result

====
